---- MODULE Spec2Model ----
(***************************************************************************)
(* connchk: the binary's main (src/bin/connchk.rs) and the library's       *)
(* Resource::check / NetworkResources::check_resources (src/lib.rs).       *)
(*                                                                         *)
(* Option<T> is modelled as a sequence: <<>> is None and <<x>> is Some(x). *)
(* Result<(), E> is a record [ok |-> BOOLEAN, err |-> message].            *)
(* A String built by format! is the sequence of its pieces, so that the    *)
(* pieces (description, status code, body) can be told apart.              *)
(***************************************************************************)
EXTENDS Integers, Sequences, FiniteSets, TLC

\* ---------------------------------------------------------------- bounds
MaxTargets == 2
MaxTwice == 1

\* ------------------------------------------------------ program constants
StatusOK == 200
ArgsExpected == 2

\* ------------------------------------------------------------ data model
None == <<>>
Some(x) == <<x>>

ResType == {"Http", "Tcp"}

\* The values a document can give to HttpOptions.ok, and the statuses the
\* servers of the model answer with: each status is the expected one of some
\* targets and a non-matching one for the others.
OkCodes == {200, 201}
Statuses == {200, 201}

ParamsValues == {None, Some("k=v")}
JsonValues == {None, Some("{j}")}
\* the custom blocks of the model: every one that sets params or json, with
\* either expected status, and one that sets neither
HttpOptions ==
    { o \in [params : ParamsValues, json : JsonValues, ok : OkCodes] :
        (o.params = None /\ o.json = None) => o.ok = StatusOK }
CustomValues == {None} \cup {Some(o) : o \in HttpOptions}
\* the custom blocks the documents of the model give to a Tcp target
TcpCustomValues == {None, Some([params |-> Some("k=v"), json |-> None, ok |-> 200])}
CustomOf(kind) == IF kind = "Tcp" THEN TcpCustomValues ELSE CustomValues

\* the values now.elapsed().as_millis() takes in the model
Durations == {0, 1}

DescOf(i) == "desc" \o ToString(i)
AddrOf(i) == "addr" \o ToString(i)

\* A Resource as deserialized from the i-th [[target]] table of a document
\* of the documented shape (desc, addr, kind, optional custom; no res key).
Resource(i, kind, custom) ==
    [desc |-> DescOf(i), addr |-> AddrOf(i), custom |-> custom,
     kind |-> kind, res |-> None]

\* NetworkResources.target of every document of at most MaxTargets targets
TargetShapes ==
    UNION { { [kind |-> k, custom |-> c] : c \in CustomOf(k) } : k \in ResType }
NetworkResources ==
    UNION {
        { [i \in 1..n |-> Resource(i, sh[i].kind, sh[i].custom)] :
            sh \in [1..n -> TargetShapes] }
        : n \in 0..MaxTargets }

\* What is at the path given on the command line
\* readable: whether fs::read_to_string succeeds; doc: what toml::from_str
\* makes of the text, None when it does not deserialize.
Unreadable == [readable |-> FALSE, doc |-> None]
Malformed == [readable |-> TRUE, doc |-> None]
FileContents ==
    {Unreadable, Malformed}
    \cup { [readable |-> TRUE, doc |-> Some(t)] : t \in NetworkResources }

\* env::args(): the program name followed by the user's arguments
ArgVectors == { <<"connchk">>, <<"connchk", "conf.toml">>,
                <<"connchk", "conf.toml", "extra">> }

\* ------------------------------------------------------------- Result
Ok == [ok |-> TRUE, err |-> <<>>]
Err(msg) == [ok |-> FALSE, err |-> msg]

\* --------------------------------------------------- the network's answers
\* connect/shutdown: the outcome of TcpStream::connect and of shutdown;
\* send: whether the HTTP request got a response; status: its status code;
\* text: whether reading the response body succeeds.
TcpAnswers ==
    { [connect |-> FALSE, shutdown |-> FALSE, send |-> FALSE, status |-> 0, text |-> FALSE],
      [connect |-> TRUE, shutdown |-> FALSE, send |-> FALSE, status |-> 0, text |-> FALSE],
      [connect |-> TRUE, shutdown |-> TRUE, send |-> FALSE, status |-> 0, text |-> FALSE] }
HttpAnswers ==
    { [connect |-> FALSE, shutdown |-> FALSE, send |-> FALSE, status |-> 0, text |-> FALSE] }
    \cup { [connect |-> FALSE, shutdown |-> FALSE, send |-> TRUE, status |-> s, text |-> t] :
             s \in Statuses, t \in BOOLEAN }
Answers(el) == IF el.kind = "Tcp" THEN TcpAnswers ELSE HttpAnswers

IoError == <<"io error">>
TransportError == <<"error sending request">>
BodyError == <<"error decoding response body">>
Body == "body"

\* A network operation as seen on the wire: the request (op, addr, body),
\* whether it went through (outcome), the status of the response (0 when
\* there is none) and what became of reading the response body (text).
NetOp(op, addr, body, outcome, status, text) ==
    [op |-> op, addr |-> addr, body |-> body, outcome |-> outcome,
     status |-> status, text |-> text]
NoBody == <<"none">>
FormBody(params) == <<"form", params>>
JsonBody(json) == <<"json", json>>

\* client.get/post(&self.addr)...send(), and resp.text() when `read`
Sent(method, el, body, ans, read) ==
    NetOp(method, el.addr, body,
          IF ans.send THEN "ok" ELSE "err",
          IF ans.send THEN ans.status ELSE 0,
          IF ans.send /\ read THEN (IF ans.text THEN "ok" ELSE "err") ELSE "unread")

\* TcpStream::connect(&self.addr) and stream.shutdown(Shutdown::Both)
Connect(el, ans) ==
    NetOp("connect", el.addr, NoBody, IF ans.connect THEN "ok" ELSE "err", 0, "unread")
Shutdown(el, ans) ==
    NetOp("shutdown", el.addr, NoBody, IF ans.shutdown THEN "ok" ELSE "err", 0, "unread")

\* ------------------------------------------------------- Resource::check
\* Every check operator returns [ret |-> Result, ops |-> the network
\* operations performed, in order].
Done(ret, ops) == [ret |-> ret, ops |-> ops]

\* format!("\n\tStatus: {}\n\tDetails: {}", resp.status().as_str(), resp.text()?)
StatusMsg(ans) ==
    IF ans.text
    THEN Err(<<"\n\tStatus: ", ToString(ans.status), "\n\tDetails: ", Body>>)
    ELSE Err(BodyError)

\* variant: any 2xx status counts as success
check_http_basic_2xx(el, ans) ==
    IF ~ans.send THEN Done(Err(TransportError), <<Sent("GET", el, NoBody, ans, FALSE)>>)
    ELSE IF ans.status >= 200 /\ ans.status < 300
    THEN Done(Ok, <<Sent("GET", el, NoBody, ans, FALSE)>>)
    ELSE Done(StatusMsg(ans), <<Sent("GET", el, NoBody, ans, TRUE)>>)

\* variant: a GET that fails in transport is sent a second time
check_http_basic_retry(el, ans) ==
    IF ~ans.send
    THEN Done(Err(TransportError),
              <<Sent("GET", el, NoBody, ans, FALSE), Sent("GET", el, NoBody, ans, FALSE)>>)
    ELSE IF ans.status = StatusOK
    THEN Done(Ok, <<Sent("GET", el, NoBody, ans, FALSE)>>)
    ELSE Done(StatusMsg(ans), <<Sent("GET", el, NoBody, ans, TRUE)>>)

check_http_basic(el, ans) ==
    IF ~ans.send THEN Done(Err(TransportError), <<Sent("GET", el, NoBody, ans, FALSE)>>)
    ELSE IF ans.status = StatusOK
    THEN Done(Ok, <<Sent("GET", el, NoBody, ans, FALSE)>>)
    ELSE Done(StatusMsg(ans), <<Sent("GET", el, NoBody, ans, TRUE)>>)

\* variant: the status is compared with 200 instead of options.ok
custom_http_resp_200(options, ans) ==
    IF ans.status = StatusOK THEN Ok ELSE StatusMsg(ans)

custom_http_resp(options, ans) ==
    IF ans.status = options.ok THEN Ok ELSE StatusMsg(ans)

\* one branch of check_http_custom: post the body, then custom_http_resp
Post(el, options, body, ans) ==
    IF ~ans.send THEN Done(Err(TransportError), <<Sent("POST", el, body, ans, FALSE)>>)
    ELSE LET r == custom_http_resp(options, ans) IN
         Done(r, <<Sent("POST", el, body, ans, ~r.ok)>>)

\* variant: the json branch is tested before the params branch
check_http_custom_json_first(el, options, ans) ==
    IF options.json # None THEN Post(el, options, JsonBody(options.json[1]), ans)
    ELSE IF options.params # None THEN Post(el, options, FormBody(options.params[1]), ans)
    ELSE Done(Ok, <<>>)

\* variant: an empty custom block falls back to the plain GET
check_http_custom_get_fallback(el, options, ans) ==
    IF options.params # None THEN Post(el, options, FormBody(options.params[1]), ans)
    ELSE IF options.json # None THEN Post(el, options, JsonBody(options.json[1]), ans)
    ELSE check_http_basic(el, ans)

check_http_custom(el, options, ans) ==
    IF options.params # None THEN Post(el, options, FormBody(options.params[1]), ans)
    ELSE IF options.json # None THEN Post(el, options, JsonBody(options.json[1]), ans)
    ELSE Done(Ok, <<>>)

check_tcp(el, ans) ==
    IF ~ans.connect THEN Done(Err(IoError), <<Connect(el, ans)>>)
    ELSE IF ~ans.shutdown THEN Done(Err(IoError), <<Connect(el, ans), Shutdown(el, ans)>>)
    ELSE Done(Ok, <<Connect(el, ans), Shutdown(el, ans)>>)

\* variant: the custom block is looked at before the kind
check_custom_first(el, ans) ==
    IF el.custom # None THEN check_http_custom(el, el.custom[1], ans)
    ELSE IF el.kind = "Tcp" THEN check_tcp(el, ans)
    ELSE check_http_basic(el, ans)

\* variant: a target that already has a result is not checked again
check_skips_done(el, ans) ==
    IF el.res # None THEN Done(Ok, <<>>)
    ELSE IF el.kind = "Tcp" THEN check_tcp(el, ans)
    ELSE IF el.custom # None THEN check_http_custom(el, el.custom[1], ans)
    ELSE check_http_basic(el, ans)

check(el, ans) ==
    IF el.kind = "Tcp" THEN check_tcp(el, ans)
    ELSE IF el.custom # None THEN check_http_custom(el, el.custom[1], ans)
    ELSE check_http_basic(el, ans)

\* ---------------------------------------------------- check_resources
FormatSuccess(el, dur) ==
    <<"Successfully connected to ", el.desc, " in ", ToString(dur), "ms">>
\* variant: the failure line names the address instead of the description
FormatFailureAddr(el, e) ==
    <<"Failed to connect to ", el.addr, " with: ">> \o e

FormatFailure(el, e) ==
    <<"Failed to connect to ", el.desc, " with: ">> \o e

\* variant: a success is not stored in el.res
ResultOfSuccessUnrecorded(el, r, dur) ==
    IF r.ok THEN None ELSE Some(FormatFailure(el, r.err))

\* the match on el.check() in the closure: the new value of el.res
ResultOf(el, r, dur) ==
    IF r.ok THEN Some(FormatSuccess(el, dur)) ELSE Some(FormatFailure(el, r.err))

VARIABLES
    args,          \* env::args()
    file,          \* what is at the path args[1] names
    target,        \* NetworkResources.target, once deserialized
    pc,            \* where main is: start, read, parse, par, report, returned, exit
    taskpc,        \* per target: idle, checking, done (the closure of for_each)
    ret,           \* per target: what el.check() returned, None before
    net,           \* per target: the network operations performed so far
    slowestFirst,  \* the first-declared target was the last to finish
    stdout,        \* the lines printed
    reported,      \* for each printed line, the index of the target it came from
    exitCode,      \* the process exit status, None while running
    ran,           \* per target: the tasks whose closure ran on it, in order
    run,           \* which call of check_resources on this value this is
    prev           \* per target: what the previous call observed, <<>> in the first

vars == <<args, file, target, pc, taskpc, ret, net, slowestFirst, stdout,
          reported, exitCode, ran, run, prev>>

N == Len(target)

Init ==
    /\ args \in ArgVectors
    /\ file \in FileContents
    /\ target = <<>>
    /\ pc = "start"
    /\ taskpc = <<>>
    /\ ret = <<>>
    /\ net = <<>>
    /\ slowestFirst = FALSE
    /\ stdout = <<>>
    /\ reported = <<>>
    /\ exitCode = None
    /\ ran = <<>>
    /\ run = 1
    /\ prev = <<>>

\* ------------------------------------------------------------------ main
\* variant: extra arguments are tolerated
ArgsAtLeast(a) == Len(a) >= ArgsExpected

ArgsOk(a) == Len(a) = ArgsExpected

\* The exit status the runtime derives from main's Result: Ok(()) is 0, an
\* Err is printed to stderr and is 1.
ExitStatus(r) == IF r.ok THEN 0 ELSE 1

ConfigError == <<"configuration error">>

\* main returns early with an Err (the return Err(..) and the two `?`)
Fail ==
    /\ pc' = "exit"
    /\ exitCode' = Some(ExitStatus(Err(ConfigError)))

MainArgs ==
    /\ pc = "start"
    /\ IF ArgsOk(args)
       THEN pc' = "read" /\ UNCHANGED exitCode
       ELSE Fail
    /\ UNCHANGED <<args, file, target, taskpc, ret, net, slowestFirst, stdout, reported, ran, run, prev>>

MainRead ==
    /\ pc = "read"
    /\ IF ~file.readable
       THEN Fail
       ELSE pc' = "parse" /\ UNCHANGED exitCode
    /\ UNCHANGED <<args, file, target, taskpc, ret, net, slowestFirst, stdout, reported, ran, run, prev>>

MainParse ==
    /\ pc = "parse"
    /\ IF file.doc = None
       THEN Fail /\ UNCHANGED <<target, taskpc, ret, net, ran>>
       ELSE /\ target' = file.doc[1]
            /\ taskpc' = [i \in 1..Len(file.doc[1]) |-> "idle"]
            /\ ret' = [i \in 1..Len(file.doc[1]) |-> None]
            /\ net' = [i \in 1..Len(file.doc[1]) |-> <<>>]
            /\ ran' = [i \in 1..Len(file.doc[1]) |-> <<>>]
            /\ pc' = "par"
            /\ UNCHANGED exitCode
    /\ UNCHANGED <<args, file, slowestFirst, stdout, reported, run, prev>>

\* ------------------------------------------------- the parallel for_each
\* variant: an element that was processed may be handed out again
UnprocessedOrDone(i) == taskpc[i] \in {"idle", "done"}

\* par_iter_mut().for_each hands every element to the closure once
Unprocessed(i) == taskpc[i] = "idle"

\* variant: every closure holds the first element
SlotShared(i) == 1

\* the element `el` of the i-th invocation of the closure: its own
Slot(i) == i

\* variant: the result is also stored as the description
AssignAll(el, v) == [el EXCEPT !.res = v, !.desc = v]

\* el.res = Some(res)
Assign(el, v) == [el EXCEPT !.res = v]

\* whether the answer a agrees with what a call observed (its ops)
Consistent(a, ops) ==
    \/ ops = <<>>
    \/ /\ ops[1].op = "connect"
       /\ a.connect = (ops[1].outcome = "ok")
       /\ Len(ops) >= 2 => a.shutdown = (ops[2].outcome = "ok")
    \/ /\ ops[1].op \in {"GET", "POST"}
       /\ a.send = (ops[1].outcome = "ok")
       /\ a.send => a.status = ops[1].status
       /\ ops[1].text # "unread" => a.text = (ops[1].text = "ok")

\* how the endpoint of target i answers: anything in the first call, and in
\* a later call the way it answered the call before
Endpoint(i) ==
    IF run = 1 THEN Answers(target[i])
    ELSE { a \in Answers(target[i]) : Consistent(a, prev[i].net) }

\* A worker picks up element i: let now = Instant::now()
TaskStart(i) ==
    /\ pc = "par"
    /\ Unprocessed(i)
    /\ taskpc' = [taskpc EXCEPT ![i] = "checking"]
    /\ UNCHANGED <<args, file, target, pc, ret, net, slowestFirst, stdout, reported, exitCode, ran, run, prev>>

\* el.check() returns and the closure writes el.res
TaskFinish(i) ==
    /\ pc = "par"
    /\ taskpc[i] = "checking"
    /\ \E ans \in Endpoint(Slot(i)), dur \in Durations :
         LET el == target[Slot(i)]
             c == check(el, ans)
         IN /\ net' = [net EXCEPT ![i] = @ \o c.ops]
            /\ ret' = [ret EXCEPT ![i] = Some(c.ret)]
            /\ target' = [target EXCEPT ![Slot(i)] = Assign(el, ResultOf(el, c.ret, dur))]
    /\ ran' = [ran EXCEPT ![Slot(i)] = Append(@, i)]
    /\ taskpc' = [taskpc EXCEPT ![i] = "done"]
    /\ slowestFirst' = (i = 1 /\ \A j \in 2..N : taskpc[j] = "done")
    /\ UNCHANGED <<args, file, pc, stdout, reported, exitCode, run, prev>>

\* for_each returns once every element has been processed
\* variant: for_each returns as soon as one element is done
JoinReadyAny == \E i \in 1..N : taskpc[i] = "done"

\* variant: for_each waits for one element more than there are
JoinReadyOffByOne == Cardinality({i \in 1..N : taskpc[i] = "done"}) > N

JoinReady == \A i \in 1..N : taskpc[i] = "done"

Join ==
    /\ pc = "par"
    /\ JoinReady
    /\ pc' = "report"
    /\ UNCHANGED <<args, file, target, taskpc, ret, net, slowestFirst, stdout, reported, exitCode, ran, run, prev>>

\* ------------------------------------------------------ the report loop
\* variant: the loop visits the elements last to first
ReportIndexReversed(k) == N + 1 - k

\* the element the k-th iteration of `for target in self.target.iter()` visits
ReportIndex(k) == k

\* The whole loop: only the main thread runs by now, so its iterations are
\* one step. The elements are visited in order and each Some(result) printed.
Report ==
    /\ pc = "report"
    /\ LET visited == [k \in 1..N |-> ReportIndex(k)]
           printed == SelectSeq(visited, LAMBDA i : target[i].res # None)
       IN /\ reported' = reported \o printed
          /\ stdout' = stdout \o [k \in 1..Len(printed) |-> target[printed[k]].res[1]]
    /\ pc' = "returned"
    /\ UNCHANGED <<args, file, target, taskpc, ret, net, slowestFirst, exitCode, ran, run, prev>>

\* variant: main returns an Err when some check failed
MainReturnValueAnyFailed ==
    IF \E i \in 1..N : ret[i] # None /\ ~ret[i][1].ok
    THEN Err(<<"a check failed">>) ELSE Ok

\* the value main returns after check_resources: Ok(())
MainReturnValue == Ok

\* check_resources has returned, then main returns
MainReturn ==
    /\ pc = "returned"
    /\ pc' = "exit"
    /\ exitCode' = Some(ExitStatus(MainReturnValue))
    /\ UNCHANGED <<args, file, target, taskpc, ret, net, slowestFirst, stdout, reported, ran, run, prev>>

Next ==
    \/ MainArgs
    \/ MainRead
    \/ MainParse
    \/ \E i \in 1..N : TaskStart(i)
    \/ \E i \in 1..N : TaskFinish(i)
    \/ Join
    \/ Report
    \/ MainReturn

Spec == Init /\ [][Next]_vars

\* ------------------------------------------- a second call by a library user
\* check_resources(&mut self) is called again on the same value: the
\* targets keep the res of the first call, and the endpoints answer as before.
Again ==
    /\ pc = "returned"
    /\ run = 1
    /\ run' = 2
    /\ prev' = [i \in 1..N |-> [ok |-> ret[i][1].ok, net |-> net[i]]]
    /\ taskpc' = [i \in 1..N |-> "idle"]
    /\ ret' = [i \in 1..N |-> None]
    /\ net' = [i \in 1..N |-> <<>>]
    /\ slowestFirst' = FALSE
    /\ pc' = "par"
    /\ UNCHANGED <<args, file, target, stdout, reported, exitCode, ran>>

NextTwice == Next \/ Again

\* the documents of the two-call runs have at most MaxTwice targets
InitTwice ==
    /\ Init
    /\ file.doc # None => Len(file.doc[1]) <= MaxTwice

SpecTwice == InitTwice /\ [][NextTwice]_vars

\* ------------------------------------------------------- fair scheduling
\* The main thread keeps running while it can, and every task of the pool
\* is scheduled: its closure starts, and its network operation returns.
MainStep == MainArgs \/ MainRead \/ MainParse \/ Join \/ Report \/ MainReturn
TaskStep(i) == i \in 1..N /\ (TaskStart(i) \/ TaskFinish(i))

LiveSpec ==
    /\ Spec
    /\ WF_vars(MainStep)
    /\ \A i \in 1..MaxTargets : WF_vars(TaskStep(i))

\* ------------------------------------------------------ shared vocabulary
Contains(seq, x) == \E k \in 1..Len(seq) : seq[k] = x
TaskDone(i) == taskpc[i] = "done" /\ ret[i] # None
Failed(i) == TaskDone(i) /\ ~ret[i][1].ok
Succeeded(i) == TaskDone(i) /\ ret[i][1].ok
\* the report loop has visited every target: check_resources has returned
Returned ==
    /\ pc \in {"returned", "exit"}
    /\ Len(args) = 2 /\ file.readable /\ file.doc # None
LinesOf(i) == { k \in 1..Len(reported) : reported[k] = i }
SuccessLines(i) ==
    { <<"Successfully connected to ", target[i].desc, " in ", ToString(d), "ms">> :
        d \in Durations }
FailureLine(i) ==
    <<"Failed to connect to ", target[i].desc, " with: ">> \o ret[i][1].err
IsHttp(i) == target[i].kind = "Http"
IsBasic(i) == IsHttp(i) /\ target[i].custom = None
IsPosting(i) ==
    /\ IsHttp(i) /\ target[i].custom # None
    /\ (target[i].custom[1].params # None \/ target[i].custom[1].json # None)
IsEmptyCustom(i) ==
    /\ IsHttp(i) /\ target[i].custom # None
    /\ target[i].custom[1].params = None /\ target[i].custom[1].json = None

\* C1: whatever the completion order of the checks, the k-th printed line
\* is the result of the k-th declared target.
C1_ReportInDeclarationOrder ==
    /\ Len(reported) = Len(stdout)
    /\ \A k \in 1..Len(stdout) :
         reported[k] = k /\ target[k].res = Some(stdout[k])

\* the first-declared target finished last and every line has been printed
C1_Witness ==
    /\ Returned /\ N >= 2 /\ slowestFirst
    /\ Len(stdout) = N

\* C2: nothing is printed while a check is still to run or running: once a
\* line is out, every target's check has returned and its result is written.
C2_FanInBarrier ==
    (Len(stdout) > 0 \/ pc \in {"report", "returned"}) =>
        \A i \in 1..N : TaskDone(i) /\ target[i].res # None

\* the lines of a set of several targets are out, and the target declared
\* first was the last to finish
C2_Witness == pc = "returned" /\ Len(stdout) >= 2 /\ slowestFirst

\* C3: once check_resources has returned, every target has exactly one
\* line in the output, and that line is its result.
C3_OneEntryPerTarget ==
    Returned =>
        /\ Len(stdout) = N
        /\ Len(reported) = N
        /\ \A i \in 1..N : Cardinality(LinesOf(i)) = 1
        /\ \A k \in 1..Len(reported) :
             reported[k] \in 1..N /\ target[reported[k]].res = Some(stdout[k])

\* returned with a Tcp target, an HTTP target with an empty custom block,
\* a failed check and a successful one
C3_Witness ==
    /\ Returned /\ N >= 2
    /\ \E i, j \in 1..N :
         /\ target[i].kind = "Tcp" /\ Failed(i)
         /\ IsEmptyCustom(j) /\ Succeeded(j)

\* C4: a target's result is the success line with its own description iff
\* its check returned Ok, and the failure line with its own description and
\* the error's text iff the check returned an error.
C4_ResultMatchesOutcome ==
    \A i \in 1..N :
        TaskDone(i) =>
            /\ target[i].res # None
            /\ ret[i][1].ok <=> target[i].res[1] \in SuccessLines(i)
            /\ ~ret[i][1].ok <=> target[i].res[1] = FailureLine(i)

\* one check succeeded and another failed
C4_Witness ==
    /\ N >= 2
    /\ \E i, j \in 1..N : Succeeded(i) /\ Failed(j) /\ target[j].res # None

\* C5: a failed check becomes the failure result of its own target and
\* nothing else: the other targets' checks can still proceed, at the end
\* every target has been checked and reported, and the exit status is 0.
C5_FailureIsContained ==
    (\E i \in 1..N : Failed(i)) =>
        /\ \A i \in 1..N : Failed(i) => target[i].res = Some(FailureLine(i))
        /\ exitCode \in {None, Some(0)}
        /\ pc = "par" =>
             \A j \in 1..N :
                ~TaskDone(j) => ENABLED (TaskStart(j) \/ TaskFinish(j))
        /\ pc = "exit" =>
             /\ exitCode = Some(0)
             /\ \A j \in 1..N :
                  /\ TaskDone(j)
                  /\ \E k \in 1..Len(stdout) :
                       reported[k] = j /\ target[j].res = Some(stdout[k])

\* the process has exited after a run in which one check failed and
\* another succeeded
C5_Witness ==
    /\ pc = "exit" /\ exitCode = Some(0)
    /\ \E i, j \in 1..N : Failed(i) /\ Succeeded(j)

\* C6: with an argument count other than one path, an unreadable file or a
\* document that does not deserialize, no check is ever started, no network
\* operation is performed, nothing is printed, and the exit status is
\* non-zero.
C6_ConfigErrorAborts ==
    (Len(args) # 2 \/ ~file.readable \/ file.doc = None) =>
        /\ target = <<>> /\ taskpc = <<>> /\ ret = <<>>
        /\ \A i \in DOMAIN net : net[i] = <<>>
        /\ stdout = <<>>
        /\ pc \notin {"par", "report", "returned"}
        /\ pc = "exit" => (exitCode # None /\ exitCode[1] # 0)

\* the process has exited because the document did not deserialize
C6_Witness ==
    /\ pc = "exit" /\ exitCode = Some(1)
    /\ Len(args) = 2 /\ file.readable /\ file.doc = None

C8_CustomHttp ==
    \A i \in 1..N :
        (IsPosting(i) /\ TaskDone(i)) =>
            LET o == target[i].custom[1] IN
            /\ Len(net[i]) = 1
            /\ net[i][1].op = "POST"
            /\ net[i][1].addr = target[i].addr
            /\ net[i][1].body \in
                 (IF o.params # None THEN {FormBody(o.params[1])} ELSE {})
                 \cup (IF o.json # None THEN {JsonBody(o.json[1])} ELSE {})
            /\ ret[i][1].ok <=> (net[i][1].outcome = "ok" /\ net[i][1].status = o.ok)
            /\ (net[i][1].outcome = "ok" /\ net[i][1].status = 200 /\ o.ok # 200)
                  => ~ret[i][1].ok

\* a target expecting 201 got a 200 and failed
C8_Witness ==
    \E i \in 1..N :
        /\ IsPosting(i) /\ Failed(i)
        /\ target[i].custom[1].ok = 201
        /\ net[i][1].outcome = "ok" /\ net[i][1].status = 200

\* C9: with both params and json set, the one request sent is the form
\* POST built from params; the JSON body is never sent.
C9_ParamsTakePrecedence ==
    \A i \in 1..N :
        (/\ IsHttp(i) /\ target[i].custom # None
         /\ target[i].custom[1].params # None
         /\ target[i].custom[1].json # None) =>
            /\ \A k \in 1..Len(net[i]) :
                 net[i][k].body # JsonBody(target[i].custom[1].json[1])
            /\ TaskDone(i) =>
                 /\ Len(net[i]) = 1
                 /\ net[i][1].op = "POST"
                 /\ net[i][1].body = FormBody(target[i].custom[1].params[1])

\* the check of a target with both params and json has returned
C9_Witness ==
    \E i \in 1..N :
        /\ IsHttp(i) /\ target[i].custom # None
        /\ target[i].custom[1].params # None
        /\ target[i].custom[1].json # None
        /\ TaskDone(i) /\ Len(net[i]) = 1

C11_Original ==
    \A i \in 1..N :
        (IsEmptyCustom(i) /\ TaskDone(i)) =>
            /\ Len(net[i]) = 1
            /\ net[i][1].op = "GET"
            /\ net[i][1].addr = target[i].addr
            /\ ret[i][1].ok <=> (net[i][1].outcome = "ok" /\ net[i][1].status = 200)

\* C12: a Tcp target performs one TCP connect and no HTTP request whatever
\* its custom block, and its operations and outcome are those of the same
\* target with any other custom block, or none, under the same answer.
C12_TcpIgnoresCustom ==
    \A i \in 1..N :
        (target[i].kind = "Tcp" /\ TaskDone(i)) =>
            /\ Len(net[i]) >= 1
            /\ net[i][1].op = "connect"
            /\ \A k \in 1..Len(net[i]) : net[i][k].op \in {"connect", "shutdown"}
            /\ \E a \in TcpAnswers :
                 \A c \in CustomValues :
                    LET twin == [target[i] EXCEPT !.custom = c] IN
                    /\ check(twin, a).ops = net[i]
                    /\ check(twin, a).ret = ret[i][1]

\* two Tcp targets of one run, one with a custom block and one without,
\* both connected
C12_Witness ==
    \E i, j \in 1..N :
        /\ target[i].kind = "Tcp" /\ target[i].custom # None /\ Succeeded(i)
        /\ target[j].kind = "Tcp" /\ target[j].custom = None /\ Succeeded(j)

\* C13 as stated: a Tcp check succeeds iff the connection is established;
\* nothing but the connect and the shutdown happens on the connection, and a
\* successful check has shut it down.
C13_Original ==
    \A i \in 1..N :
        (target[i].kind = "Tcp" /\ TaskDone(i)) =>
            /\ ret[i][1].ok <=> (net[i][1].op = "connect" /\ net[i][1].outcome = "ok")
            /\ \A k \in 1..Len(net[i]) : net[i][k].op \in {"connect", "shutdown"}
            /\ ret[i][1].ok =>
                 (Len(net[i]) = 2 /\ net[i][2].op = "shutdown" /\ net[i][2].outcome = "ok")

\* C14 as stated: when a response with a non-matching status came back and
\* reading its body failed, the target's failure line still carries the
\* status code.
C14_Original ==
    \A i \in 1..N :
        (IsHttp(i) /\ TaskDone(i) /\ net[i] # <<>>) =>
            (net[i][1].text = "err" =>
                /\ ~ret[i][1].ok
                /\ target[i].res # None
                /\ Contains(target[i].res[1], ToString(net[i][1].status)))

\* C15: in a second call of check_resources on the same targets, with the
\* endpoints answering as in the first, every target's check succeeds iff
\* it succeeded in the first call, and its line is of the same kind.
C15_SameClassification ==
    run = 2 =>
        \A i \in 1..N :
            TaskDone(i) =>
                /\ ret[i][1].ok = prev[i].ok
                /\ target[i].res # None
                /\ prev[i].ok <=> target[i].res[1] \in SuccessLines(i)

\* the second call has printed its lines: the first target succeeded in
\* both calls, with another elapsed time
C15_Witness ==
    /\ run = 2 /\ pc = "returned" /\ N >= 1
    /\ Len(stdout) = 2 * N
    /\ Succeeded(1) /\ prev[1].ok
    /\ stdout[1] # stdout[N + 1]

C17_TasksOwnTheirTarget ==
    /\ \A j \in 1..N :
         /\ \A k \in 1..Len(ran[j]) : ran[j][k] = j
         /\ \A k \in 1..Len(net[j]) : net[j][k].addr = target[j].addr
         /\ taskpc[j] # "done" => ran[j] = <<>>
    /\ \A i, j \in 1..N :
         (i # j /\ taskpc[i] = "checking" /\ taskpc[j] = "checking") => Slot(i) # Slot(j)

\* two tasks ran at the same time and one has written its result while the
\* other is still checking
C17_Witness ==
    \E i, j \in 1..N :
        /\ i # j
        /\ taskpc[i] = "checking" /\ target[i].res = None
        /\ taskpc[j] = "done" /\ ran[j] = <<j>> /\ target[j].res # None

\* C18: a target's check performs at most one connect, GET or POST, also
\* when that operation fails.
C18_AtMostOneOperation ==
    \A i \in 1..N :
        /\ Cardinality({ k \in 1..Len(net[i]) :
                           net[i][k].op \in {"connect", "GET", "POST"} }) <= 1
        /\ Len(ran[i]) <= 1

\* the process has exited after a request that got no response and a
\* connect that was refused
C18_Witness ==
    /\ pc = "exit"
    /\ \E i, j \in 1..N :
         /\ IsHttp(i) /\ Failed(i) /\ Len(net[i]) = 1 /\ net[i][1].outcome = "err"
         /\ target[j].kind = "Tcp" /\ Failed(j) /\ Len(net[j]) = 1

\* C19: once the targets are deserialized they stay as many and in the same
\* order, and each keeps its desc, addr, kind and custom.
C19_OnlyResChanges ==
    (Len(args) = 2 /\ file.readable /\ file.doc # None
        /\ pc \in {"par", "report", "returned", "exit"}) =>
        /\ Len(target) = Len(file.doc[1])
        /\ \A i \in 1..Len(target) :
             /\ target[i].desc = file.doc[1][i].desc
             /\ target[i].addr = file.doc[1][i].addr
             /\ target[i].kind = file.doc[1][i].kind
             /\ target[i].custom = file.doc[1][i].custom

\* check_resources has returned with the result of every one of several
\* targets written, one of them with a custom block
C19_Witness ==
    /\ Returned /\ N >= 2
    /\ \A i \in 1..N : target[i].res # None
    /\ \E i \in 1..N : target[i].custom # None

\* C20: under fair scheduling the process exits; with a valid configuration
\* every result is written, every line printed and the exit status is 0; and
\* a check that is running finishes, whatever becomes of the others.
C20_Completes ==
    /\ <>(pc = "exit")
    /\ (Len(args) = 2 /\ file.readable /\ file.doc # None) =>
          <>(/\ pc = "exit" /\ exitCode = Some(0)
             /\ \A i \in 1..N : target[i].res # None
             /\ Len(stdout) = N)
    /\ \A i \in 1..MaxTargets :
          (i \in 1..N /\ taskpc[i] = "checking") ~> (i \in 1..N /\ taskpc[i] = "done")

\* the process has exited after a run in which the first-declared target
\* failed and was the last to finish
C20_Witness ==
    /\ pc = "exit" /\ exitCode = Some(0) /\ N >= 2
    /\ slowestFirst /\ Failed(1)
    /\ Len(stdout) = N

====
